---- MODULE Spec2Model ----
(***************************************************************************)
(* A model of clipboard_monitor_gui.go: the settings store (loadSettings,  *)
(* saveSettings), the content classifier, the rule engine (applyRules),    *)
(* the monitoring loop (monitorClipboard, writeToClipboard) and the        *)
(* handlers of the control surface (createUI).                             *)
(*                                                                         *)
(* Strings are sequences of byte values (97 is "a", 91 is "[", 9 is tab).  *)
(* A clipboard text is a record [body, pad]: the bytes of body followed by *)
(* pad copies of the byte "z", which no pattern of the model matches; this *)
(* lets a text be longer than maxTextSize = 262144 bytes.                  *)
(***************************************************************************)
EXTENDS Integers, Sequences, FiniteSets, TLC

\* ------------------------------------------------------------------ bounds

\* Longest body of a text an external program puts on the clipboard.
MaxLen == 2
\* Most rules the list holds (Add is disabled at this length).
MaxRules == 2

\* ------------------------------------------------------------- byte strings

RECURSIVE Flatten(_)
Flatten(ss) == IF ss = <<>> THEN <<>> ELSE Head(ss) \o Flatten(Tail(ss))

Range(s) == {s[i] : i \in 1..Len(s)}

\* All byte strings over alphabet A of length at most n.
StringsUpTo(A, n) == UNION {[1..k -> A] : k \in 0..n}

Text(b, p) == [body |-> b, pad |-> p]
EmptyText == Text(<<>>, 0)
\* len(content)
TextLen(t) == Len(t.body) + t.pad

\* ------------------------------------------------------------- classifier

maxTextSize == 512 * 512

\* The class [\x00-\x08\x0B\x0C\x0E-\x1F].
ControlByte(c) == c \in (0..8) \cup {11, 12} \cup (14..31)

isTextContent(content) ==
    /\ TextLen(content) > 0
    /\ ~ \E i \in 1..Len(content.body) : ControlByte(content.body[i])

\* The size check one byte off.
TooLargeOffByOne(content) == TextLen(content) > maxTextSize + 1

isTextTooLarge(content) == TextLen(content) > maxTextSize

\* ------------------------------------------------------------------ regexp
\* The patterns of the model are literals over letters, and "[" (which has
\* no closing bracket and does not compile). A compiled Regexp is the
\* literal it matches; a nil *Regexp is NilRegexp.

NilRegexp == [ok |-> FALSE, lit |-> <<>>]

\* regexp.Compile: [err, re].
Compile(pattern) ==
    IF 91 \in Range(pattern)
    THEN [err |-> TRUE, re |-> NilRegexp]
    ELSE [err |-> FALSE, re |-> [ok |-> TRUE, lit |-> pattern]]

MatchesAt(lit, s, i) ==
    /\ i + Len(lit) - 1 <= Len(s)
    /\ \A k \in 1..Len(lit) : s[i + k - 1] = lit[k]

\* Regexp.ReplaceAllString for a non-empty literal and a replacement without
\* "$": leftmost non-overlapping matches, scanned from byte i on.
RECURSIVE ReplaceFrom(_, _, _, _)
ReplaceFrom(lit, s, repl, i) ==
    IF i > Len(s) THEN <<>>
    ELSE IF MatchesAt(lit, s, i)
         THEN repl \o ReplaceFrom(lit, s, repl, i + Len(lit))
         ELSE <<s[i]>> \o ReplaceFrom(lit, s, repl, i + 1)

ReplaceAllString(re, src, repl) ==
    Text(ReplaceFrom(re.lit, src.body, repl, 1), src.pad)

\* ------------------------------------------------------------------- rules

Rule(p, r, e, re) == [Pattern |-> p, Replacement |-> r, Enabled |-> e, Regexp |-> re]
ZeroRule == Rule(<<>>, <<>>, FALSE, NilRegexp)

\* The loop body without its test of rule.Enabled.
ApplyEvenDisabled(rule, currentText) ==
    IF rule.Regexp.ok
    THEN ReplaceAllString(rule.Regexp, currentText, rule.Replacement)
    ELSE currentText

\* One iteration of the loop body of applyRules.
ApplyRule(rule, currentText) ==
    IF rule.Enabled /\ rule.Regexp.ok
    THEN ReplaceAllString(rule.Regexp, currentText, rule.Replacement)
    ELSE currentText

\* applyRules over a rule list that nothing changes during the call.
RECURSIVE FoldRules(_, _)
FoldRules(rules, currentText) ==
    IF rules = <<>> THEN currentText
    ELSE FoldRules(Tail(rules), ApplyRule(Head(rules), currentText))

\* ------------------------------------------------- 64-bit integers, Duration
\* An int64 is [neg, mag]: a sign and a magnitude of five digits in base
\* 10^6, least significant first, so that multiplying by time.Millisecond
\* (10^6 ns) keeps its wrap-around at 2^64. Zero has neg = FALSE.

Base == 1000 * 1000

Two64 == <<551616, 73709, 446744, 18, 0>>
Two63 == <<775808, 36854, 223372, 9, 0>>
MagZero == <<0, 0, 0, 0, 0>>

Int64(n, m) == [neg |-> n /\ m # MagZero, mag |-> m]

\* a >= b on magnitudes.
MagGE(a, b) ==
    \/ a = b
    \/ \E i \in 1..5 : a[i] > b[i] /\ \A j \in (i + 1)..5 : a[j] = b[j]

Borrow(a, b, i) ==
    LET RECURSIVE Bw(_)
        Bw(k) == IF k = 0 THEN 0
                 ELSE IF a[k] - b[k] - Bw(k - 1) < 0 THEN 1 ELSE 0
    IN Bw(i)

\* a - b on magnitudes, for a >= b.
MagSub(a, b) == [i \in 1..5 |-> (a[i] - b[i] - Borrow(a, b, i - 1)) % Base]

MagShl(a) == <<0, a[1], a[2], a[3], a[4]>>
MagShr(a) == <<a[2], a[3], a[4], a[5], 0>>

RECURSIVE MagMod64(_)
MagMod64(a) == IF MagGE(a, Two64) THEN MagMod64(MagSub(a, Two64)) ELSE a

\* The int64 that a product of sign n and magnitude m wraps to.
Wrap64(n, m) ==
    LET u == MagMod64(m) IN
    IF n
    THEN IF MagGE(Two63, u) THEN Int64(TRUE, u) ELSE Int64(FALSE, MagSub(Two64, u))
    ELSE IF MagGE(u, Two63) THEN Int64(TRUE, MagSub(Two64, u)) ELSE Int64(FALSE, u)

\* time.Duration(ms) * time.Millisecond
DurationOfMs(ms) == Wrap64(ms.neg, MagShl(ms.mag))

\* int(d.Milliseconds()): int64(d) / 1e6, truncated toward zero.
Milliseconds(d) == Int64(d.neg, MagShr(d.mag))

Ms(k) == Int64(FALSE, <<k % Base, k \div Base, 0, 0, 0>>)
NegMs(k) == Int64(TRUE, <<k % Base, k \div Base, 0, 0, 0>>)

\* The initial value of monitorInterval.
DefaultInterval == DurationOfMs(Ms(500))

Positive(d) == ~d.neg /\ d.mag # MagZero

\* --------------------------------------------------------------- JSON text
\* encoding/json writes a string with its quotes, backslashes, control bytes
\* and the bytes <, >, & escaped, and reads the escapes back.

HexDigit(n) == IF n < 10 THEN 48 + n ELSE 87 + n
HexValue(c) == IF c \in 48..57 THEN c - 48 ELSE IF c \in 97..102 THEN c - 87 ELSE -1

EscapeByte(c) ==
    IF c = 34 \/ c = 92 THEN <<92, c>>
    ELSE IF c = 10 THEN <<92, 110>>
    ELSE IF c = 13 THEN <<92, 114>>
    ELSE IF c = 9 THEN <<92, 116>>
    ELSE IF c < 32 \/ c \in {60, 62, 38}
         THEN <<92, 117, 48, 48, HexDigit(c \div 16), HexDigit(c % 16)>>
    ELSE <<c>>

EncodeString(s) == Flatten([i \in 1..Len(s) |-> EscapeByte(s[i])])

\* The string a JSON string body e stands for, read from byte i on; a body
\* the encoder never writes (a lone backslash, a raw quote or control byte)
\* is cut at the bad byte ("ok" is then FALSE).
RECURSIVE DecodeFrom(_, _)
DecodeFrom(e, i) ==
    IF i > Len(e) THEN [ok |-> TRUE, s |-> <<>>]
    ELSE IF e[i] = 92
    THEN IF i + 1 > Len(e) THEN [ok |-> FALSE, s |-> <<>>]
         ELSE IF e[i + 1] \in {34, 92, 47}
              THEN LET r == DecodeFrom(e, i + 2)
                   IN [ok |-> r.ok, s |-> <<e[i + 1]>> \o r.s]
         ELSE IF e[i + 1] \in {110, 114, 116}
              THEN LET r == DecodeFrom(e, i + 2)
                       c == IF e[i + 1] = 110 THEN 10 ELSE IF e[i + 1] = 114 THEN 13 ELSE 9
                   IN [ok |-> r.ok, s |-> <<c>> \o r.s]
         ELSE IF /\ e[i + 1] = 117
                 /\ i + 5 <= Len(e)
                 /\ e[i + 2] = 48 /\ e[i + 3] = 48
                 /\ HexValue(e[i + 4]) >= 0 /\ HexValue(e[i + 5]) >= 0
              THEN LET r == DecodeFrom(e, i + 6)
                   IN [ok |-> r.ok, s |-> <<16 * HexValue(e[i + 4]) + HexValue(e[i + 5])>> \o r.s]
         ELSE [ok |-> FALSE, s |-> <<>>]
    ELSE IF e[i] = 34 \/ e[i] < 32 THEN [ok |-> FALSE, s |-> <<>>]
    ELSE LET r == DecodeFrom(e, i + 1) IN [ok |-> r.ok, s |-> <<e[i]>> \o r.s]

DecodeString(e) == DecodeFrom(e, 1)

\* ------------------------------------------------------------------ slices
\* A []Rule is its backing array (all cap elements of it) and its length; the
\* elements from len + 1 on are what earlier appends and deletes left there.
\* Indexes are 1-based: the rule the code calls replacementRules[id] is
\* arr[id + 1].

Slice(a, n, isnil) == [arr |-> a, len |-> n, nil |-> isnil]
NilSlice == Slice(<<>>, 0, TRUE)
\* []Rule{}
EmptySlice == Slice(<<>>, 0, FALSE)
Cap(s) == Len(s.arr)
Elems(s) == SubSeq(s.arr, 1, s.len)
Zeros(n) == [i \in 1..n |-> ZeroRule]

\* The capacity append gives a full slice of capacity c (runtime.growslice,
\* for the 48-byte Rule: 1, 2, 4, 8).
GrowCap(c) == IF c = 0 THEN 1 ELSE 2 * c

\* Whether append has no room and moves the elements to a new array.
Reallocates(s) == s.len = Cap(s)

\* append(s, r)
AppendRule(s, r) ==
    IF Reallocates(s)
    THEN Slice(Elems(s) \o <<r>> \o Zeros(GrowCap(Cap(s)) - s.len - 1), s.len + 1, FALSE)
    ELSE Slice([s.arr EXCEPT ![s.len + 1] = r], s.len + 1, FALSE)

\* append(s[:id], s[id+1:]...): the elements after id move down one place in
\* the same array, whose element at the old length keeps its value.
DeleteAt(s, id) ==
    Slice([i \in 1..Cap(s) |-> IF i >= id /\ i < s.len THEN s.arr[i + 1] ELSE s.arr[i]],
          s.len - 1, s.nil)

\* The capacity of the slice json.Unmarshal builds for an array of n values:
\* the decoder grows it one value at a time, as append does.
RECURSIVE GrowTo(_, _)
GrowTo(c, n) == IF n <= c THEN c ELSE GrowTo(GrowCap(c), n)

JsonCap(n) == GrowTo(0, n)

\* ----------------------------------------------------------- settings.json
\* The file is absent, unparsable, or a JSON document: "rules" (null, or the
\* rule objects with their strings as written between the quotes) and
\* "interval_ms" (absent, or an integer).

JsonRule(p, r, e) == [pattern |-> p, replacement |-> r, enabled |-> e]
JsonFile(null, rules, hasInterval, ms) ==
    [kind |-> "json", null |-> null, rules |-> rules, hasInterval |-> hasInterval, interval |-> ms]
AbsentFile == [JsonFile(TRUE, <<>>, FALSE, Ms(0)) EXCEPT !.kind = "absent"]
GarbageFile == [JsonFile(TRUE, <<>>, FALSE, Ms(0)) EXCEPT !.kind = "garbage"]

\* The fields written with their strings as they are, unescaped.
MarshalRuleRaw(rule) == JsonRule(rule.Pattern, rule.Replacement, rule.Enabled)

\* The `json:"pattern"`, `json:"replacement"`, `json:"enabled"` fields of a
\* Rule; Regexp is `json:"-"`.
MarshalRule(rule) ==
    JsonRule(EncodeString(rule.Pattern), EncodeString(rule.Replacement), rule.Enabled)

\* json.MarshalIndent of the settings struct.
Marshal(rules, interval) ==
    JsonFile(rules.nil, [i \in 1..rules.len |-> MarshalRule(rules.arr[i])], TRUE, interval)

\* The error of json.Unmarshal dropped: a file that does not parse gives the
\* zero settings.
UnmarshalErrorDropped(f) ==
    IF f.kind # "json"
    THEN [err |-> FALSE, Rules |-> <<>>, Null |-> TRUE, Interval |-> Ms(0)]
    ELSE [err |-> FALSE,
          Rules |-> [i \in 1..Len(f.rules) |->
                        Rule(DecodeString(f.rules[i].pattern).s,
                             DecodeString(f.rules[i].replacement).s,
                             f.rules[i].enabled, NilRegexp)],
          Null |-> f.null,
          Interval |-> IF f.hasInterval THEN f.interval ELSE Ms(0)]

\* json.Unmarshal into the settings struct: [err, Rules, Interval].
Unmarshal(f) ==
    LET bad == \/ f.kind # "json"
               \/ \E i \in 1..Len(f.rules) :
                      \/ ~DecodeString(f.rules[i].pattern).ok
                      \/ ~DecodeString(f.rules[i].replacement).ok
        rule(i) == Rule(DecodeString(f.rules[i].pattern).s,
                        DecodeString(f.rules[i].replacement).s,
                        f.rules[i].enabled, NilRegexp)
    IN IF bad
       THEN [err |-> TRUE, Rules |-> <<>>, Null |-> TRUE, Interval |-> Ms(0)]
       ELSE [err |-> FALSE,
             Rules |-> [i \in 1..Len(f.rules) |-> rule(i)],
             Null |-> f.null,
             Interval |-> IF f.hasInterval THEN f.interval ELSE Ms(0)]

\* The loop of loadSettings over the rules, up to rule n: a rule with a
\* non-empty pattern that compiles gets its Regexp, any other is left as read.
RECURSIVE CompileUpTo(_, _)
CompileUpTo(rules, n) ==
    IF n = 0 THEN rules
    ELSE LET done == CompileUpTo(rules, n - 1)
             c == Compile(done[n].Pattern)
         IN IF done[n].Pattern # <<>> /\ ~c.err
            THEN [done EXCEPT ![n].Regexp = c.re]
            ELSE done

\* The same loop leaving at the first pattern that does not compile.
RECURSIVE CompileUntilError(_)
CompileUntilError(rules) ==
    IF rules = <<>> THEN <<>>
    ELSE IF Head(rules).Pattern # <<>> /\ Compile(Head(rules).Pattern).err
         THEN rules
         ELSE <<Head(CompileUpTo(<<Head(rules)>>, 1))>> \o CompileUntilError(Tail(rules))

CompileRules(rules) == CompileUpTo(rules, Len(rules))

\* The interval loadSettings takes from a parsed file.
LoadedInterval(ms) == DurationOfMs(ms)

\* os.WriteFile(data) on file f: written, not opened (f is kept), or cut
\* short after the open truncated f.
WriteOutcomes == {"ok", "noopen", "partial"}
WriteFile(f, data, outcome) ==
    IF outcome = "ok" THEN data
    ELSE IF outcome = "noopen" THEN f
    ELSE GarbageFile

\* ------------------------------------------------------------------- state

VARIABLES
    mainpc,            \* main: "load" before loadSettings, then "run"
    monitoring,        \* the package variables
    replacementRules,
    monitorInterval,
    lastText,
    file,              \* settings.json
    clipboard,         \* the host clipboard: [text, data]
    uiLabel,           \* the statusLabel of createUI, shown in the window
    loopLabel,         \* the statusLabel main passes to monitorClipboard
    pc,                \* monitorClipboard: "top", "read", "classify", "range", "write", "sleep"
    currentText,
    updatedText,
    rng,               \* applyRules: the range loop [shared, arr, len, i, acc]
    attempt,           \* writeToClipboard: i
    observed,          \* history: the value of monitoring the loop last tested
    slept,             \* history: time.Sleep(monitorInterval) ran since the last read
    selfWritten,       \* history: the loop wrote lastText and no program copied since
    call,              \* history: the applyRules call under way [made, arg, applied, lists]
    writes,            \* history: the cycle's WriteAll results [prev, tries]
    fresh,             \* history: no handler changed the rules since loadSettings
    saved,             \* history: [valid, rules, interval], what file was saved from,
                       \* and last, how this run's latest saveSettings ended
    processed          \* history: until the checks of this cycle are done, the text
                       \* the cycle before it took past the checks of its content
                       \* and size (EmptyText when it took none)

globals == <<monitoring, replacementRules, monitorInterval, lastText>>
locals == <<pc, currentText, updatedText, rng, attempt>>
history == <<observed, slept, selfWritten, call, writes, fresh, saved, processed>>
vars == <<mainpc, globals, file, clipboard, uiLabel, loopLabel, locals, history>>

\* --------------------------------------------------------------- constants

maxAttempts == 2

Waiting == "Status: Waiting for actions"
NonText == "Non-text content detected, skipping"
TooLarge == "Text too large, skipping"
WriteFailed == "Failed to write to clipboard"
WriteSucceeded == "Successfully wrote to clipboard"
Started == "Monitoring started"
Stopped == "Monitoring stopped"

\* ------------------------------------------------------------ model inputs

\* What an external program copies: texts over "a" and the control byte
\* 0x0B, short or maxTextSize bytes longer, and non-text data.
Alphabet == {97, 11}
Pads == {0, maxTextSize}
ExtTexts == {Text(b, p) : b \in StringsUpTo(Alphabet, MaxLen), p \in Pads}
ClipText(t) == [text |-> TRUE, data |-> t]
ClipOther == [text |-> FALSE, data |-> EmptyText]

\* The rules of the settings files the model starts from.
RuleAtoAA == JsonRule(<<97>>, <<97, 97>>, TRUE)
RuleAtoB == JsonRule(<<97>>, <<98>>, TRUE)
RuleBad == JsonRule(<<91>>, <<120>>, TRUE)
RuleTab == JsonRule(<<92, 116>>, <<92, 34>>, FALSE)

RuleOff == JsonRule(<<97>>, <<98>>, FALSE)
InitFiles ==
    { AbsentFile,
      GarbageFile,
      JsonFile(FALSE, <<RuleBad, RuleAtoAA>>, FALSE, Ms(0)),
      JsonFile(FALSE, <<RuleOff, RuleAtoAA, RuleAtoB>>, TRUE, Ms(250)),
      JsonFile(FALSE, <<RuleAtoB>>, TRUE, NegMs(5)) }

\* The settings files the store is checked on: also an unparsable one, one
\* with strings that need escapes, and intervals whose nanoseconds do not
\* fit 64 bits.
Huge == Int64(FALSE, <<0, 0, 10, 0, 0>>)
StoreFiles ==
    InitFiles \cup
    { JsonFile(TRUE, <<>>, TRUE, Ms(0)),
      JsonFile(FALSE, <<RuleTab, RuleAtoB>>, TRUE, Ms(500)),
      JsonFile(FALSE, <<RuleAtoB, RuleBad>>, TRUE, Huge) }

\* What the user types into the two entries before pressing Add.
AddPatterns == {<<>>, <<97>>, <<91>>}
AddReplacements == {<<>>, <<97, 97>>}

NoCall == [made |-> FALSE, arg |-> EmptyText, applied |-> <<>>, lists |-> {}]
NoWrites == [prev |-> EmptyText, tries |-> <<>>]
NoRange == [shared |-> TRUE, arr |-> <<>>, len |-> 0, i |-> 1, acc |-> EmptyText]
NotSaved == [valid |-> FALSE, rules |-> <<>>, interval |-> Ms(0), last |-> "none"]

Triples(rules) == [i \in 1..Len(rules) |-> [rules[i] EXCEPT !.Regexp = NilRegexp]]

\* The state when main starts, for a settings file f.
Start(f) ==
    /\ mainpc = "load"
    /\ monitoring = FALSE
    /\ replacementRules = NilSlice
    /\ monitorInterval = DefaultInterval
    /\ lastText = EmptyText
    /\ file = f
    /\ uiLabel = Waiting
    /\ loopLabel = Waiting
    /\ pc = "top"
    /\ currentText = EmptyText
    /\ updatedText = EmptyText
    /\ rng = NoRange
    /\ attempt = 0
    /\ observed = FALSE
    /\ slept = TRUE
    /\ selfWritten = FALSE
    /\ call = NoCall
    /\ writes = NoWrites
    /\ fresh = FALSE
    /\ processed = EmptyText

Init ==
    /\ \E f \in InitFiles : Start(f)
    /\ clipboard \in {ClipText(Text(<<97>>, 0)), ClipOther}
    /\ saved = NotSaved

\* ----------------------------------------------------------- settings store

\* loadSettings, called once by main before the window and the loop exist.
LoadSettings ==
    /\ mainpc = "load"
    /\ mainpc' = "run"
    /\ fresh' = TRUE
    /\ IF file.kind = "absent"
       THEN /\ replacementRules' = EmptySlice
            /\ UNCHANGED monitorInterval
       ELSE LET u == Unmarshal(file)
                n == Len(u.Rules)
            IN IF u.err
               THEN UNCHANGED <<replacementRules, monitorInterval>>
               ELSE /\ replacementRules' =
                          Slice(CompileRules(u.Rules) \o Zeros(JsonCap(n) - n), n, u.Null)
                    /\ monitorInterval' = LoadedInterval(u.Interval)
    /\ UNCHANGED <<monitoring, lastText, file, clipboard, uiLabel, loopLabel, locals,
                   observed, slept, selfWritten, call, writes, saved, processed>>

\* The rules as they were before the handler changed them.
SavedRulesBefore(rules) == replacementRules

\* saveSettings reads replacementRules after the handler has set it.
SavedRules(rules) == rules

\* saveSettings with the rules a handler has just set: the file, and what it
\* was saved from.
SaveSettings(rules, w) ==
    /\ file' = WriteFile(file, Marshal(SavedRules(rules), Milliseconds(monitorInterval)), w)
    /\ saved' = IF w = "ok"
                THEN [valid |-> TRUE, rules |-> Triples(Elems(SavedRules(rules))),
                      interval |-> monitorInterval, last |-> w]
                ELSE IF w = "noopen" THEN [saved EXCEPT !.last = w]
                ELSE [NotSaved EXCEPT !.last = w]

\* ---------------------------------------------------------- control surface
\* A handler runs on the event thread and is one step here; the loop runs
\* between any two handlers, and between any two of its own steps.

\* A handler sets the rules to new: a call of applyRules that is iterating
\* may see it (lists), and keeps the old array when append moved the rules.
SetRules(new, moved) ==
    /\ replacementRules' = new
    /\ fresh' = FALSE
    /\ call' = IF pc = "range" THEN [call EXCEPT !.lists = @ \cup {Elems(new)}] ELSE call
    /\ rng' = IF pc = "range" /\ rng.shared /\ moved
              THEN [rng EXCEPT !.shared = FALSE, !.arr = replacementRules.arr]
              ELSE rng

\* check.OnChanged
Toggle(id, checked, w) ==
    /\ mainpc = "run"
    /\ id \in 1..replacementRules.len
    /\ LET new == [replacementRules EXCEPT !.arr[id].Enabled = checked]
       IN SetRules(new, FALSE) /\ SaveSettings(new, w)
    /\ UNCHANGED <<mainpc, monitoring, monitorInterval, lastText, clipboard, uiLabel, loopLabel,
                   pc, currentText, updatedText, attempt, observed, slept, selfWritten, writes, processed>>

\* deleteButton.OnTapped
Delete(id, w) ==
    /\ mainpc = "run"
    /\ id \in 1..replacementRules.len
    /\ LET new == DeleteAt(replacementRules, id)
       IN SetRules(new, FALSE) /\ SaveSettings(new, w)
    /\ UNCHANGED <<mainpc, monitoring, monitorInterval, lastText, clipboard, uiLabel, loopLabel,
                   pc, currentText, updatedText, attempt, observed, slept, selfWritten, writes, processed>>

\* The Add handler without its return on a pattern that does not compile.
AddRejectsEmptyOnly(pattern, replacement) ==
    pattern = <<>> \/ replacement = <<>>

\* Whether the Add handler returns before it appends.
AddRejects(pattern, replacement) ==
    pattern = <<>> \/ replacement = <<>> \/ Compile(pattern).err

\* addRuleButton's handler, with the texts of the two entries.
Add(pattern, replacement, w) ==
    /\ mainpc = "run"
    /\ IF AddRejects(pattern, replacement)
       THEN UNCHANGED <<replacementRules, fresh, call, rng, file, saved>>
       ELSE LET newRule == Rule(pattern, replacement, TRUE, Compile(pattern).re)
                new == AppendRule(replacementRules, newRule)
            IN /\ replacementRules.len < MaxRules
               /\ SetRules(new, Reallocates(replacementRules))
               /\ SaveSettings(new, w)
    /\ UNCHANGED <<mainpc, monitoring, monitorInterval, lastText, clipboard, uiLabel, loopLabel,
                   pc, currentText, updatedText, attempt, observed, slept, selfWritten, writes, processed>>

\* startButton's handler
StartMonitoring ==
    /\ mainpc = "run"
    /\ monitoring' = TRUE
    /\ uiLabel' = Started
    /\ UNCHANGED <<mainpc, replacementRules, monitorInterval, lastText, file, clipboard,
                   loopLabel, locals, history>>

\* stopButton's handler
StopMonitoring ==
    /\ mainpc = "run"
    /\ monitoring' = FALSE
    /\ uiLabel' = Stopped
    /\ UNCHANGED <<mainpc, replacementRules, monitorInterval, lastText, file, clipboard,
                   loopLabel, locals, history>>

\* Another program copies text t, or something that is no text.
ExtCopy(c) ==
    /\ clipboard' = c
    /\ selfWritten' = FALSE
    /\ UNCHANGED <<mainpc, globals, file, uiLabel, loopLabel, locals,
                   observed, slept, call, writes, fresh, saved, processed>>

\* ------------------------------------------------------------ monitor loop

\* The loop runs once main has started it.
Running == mainpc = "run"

\* The test that lets every cycle through.
GoesOnAlways(flag) == TRUE

\* The test on a copy of the flag that stays true once it was seen true.
GoesOnStale(flag) == flag \/ observed

\* `if !monitoring`: whether the cycle goes on to read the clipboard.
GoesOn(flag) == flag

\* The top of the loop: the flag is read; when it is off the loop sleeps
\* 200 ms and comes back here.
TestFlag ==
    /\ Running /\ pc = "top"
    /\ observed' = monitoring
    /\ pc' = IF GoesOn(monitoring) THEN "read" ELSE "top"
    /\ UNCHANGED <<mainpc, globals, file, clipboard, uiLabel, loopLabel,
                   currentText, updatedText, rng, attempt,
                   slept, selfWritten, call, writes, fresh, saved, processed>>

\* A read error that ends the loop (`return` for `continue`).
AfterReadErrorExit == "exit"

\* Where a cycle goes after a read error that is not the non-text one.
AfterReadError == "top"

\* clipboard.ReadAll: the text, the error that stands for non-text content,
\* or another error.
ReadOutcomes == {"ok", "nontext", "error"}

\* Every read error taken for the one that stands for non-text content.
AnyErrorIsNonText(outcome) == outcome # "ok"

\* `err.Error() == "The operation completed successfully."`
IsNonTextError(outcome) == outcome = "nontext"

ReadAll(outcome) ==
    /\ Running /\ pc = "read"
    /\ slept' = FALSE
    /\ \/ /\ outcome = "ok" /\ clipboard.text
          /\ currentText' = clipboard.data
          /\ pc' = "classify"
          /\ UNCHANGED <<loopLabel, processed>>
       \/ /\ outcome = "nontext" /\ ~clipboard.text
          /\ IsNonTextError(outcome)
          /\ loopLabel' = NonText
          /\ pc' = "sleep"
          /\ UNCHANGED <<currentText, processed>>
       \/ /\ outcome = "error"
          /\ IF IsNonTextError(outcome)
             THEN loopLabel' = NonText /\ pc' = "sleep" /\ UNCHANGED processed
             ELSE pc' = AfterReadError /\ processed' = EmptyText /\ UNCHANGED loopLabel
          /\ UNCHANGED currentText
    /\ UNCHANGED <<mainpc, globals, file, clipboard, uiLabel, updatedText, rng, attempt,
                   observed, selfWritten, call, writes, fresh, saved>>

\* The test that also skips the text the cycle before took past the checks.
ChangedSincePrevious(text, last) == text # last /\ text # processed

\* `if currentText != lastText`
Changed(text, last) == text # last

\* The checks between the read and applyRules; the call of applyRules starts
\* its range loop over the slice as it is now.
Classify ==
    /\ Running /\ pc = "classify"
    /\ IF ~isTextContent(currentText)
       THEN loopLabel' = NonText /\ pc' = "sleep" /\ UNCHANGED <<rng, call>>
       ELSE IF isTextTooLarge(currentText)
       THEN loopLabel' = TooLarge /\ pc' = "sleep" /\ UNCHANGED <<rng, call>>
       ELSE IF ~Changed(currentText, lastText)
       THEN pc' = "sleep" /\ UNCHANGED <<loopLabel, rng, call>>
       ELSE /\ pc' = "range"
            /\ rng' = [shared |-> TRUE, arr |-> <<>>, len |-> replacementRules.len,
                       i |-> 1, acc |-> currentText]
            /\ call' = [made |-> TRUE, arg |-> currentText, applied |-> <<>>,
                        lists |-> {Elems(replacementRules)}]
            /\ UNCHANGED loopLabel
    /\ processed' = EmptyText
    /\ UNCHANGED <<mainpc, globals, file, clipboard, uiLabel, currentText, updatedText, attempt,
                   observed, slept, selfWritten, writes, fresh, saved>>

\* The array the range loop walks: the one it started on.
RangeArray == IF rng.shared THEN replacementRules.arr ELSE rng.arr

\* One iteration of applyRules: the element is copied into rule and applied.
RangeStep ==
    /\ Running /\ pc = "range" /\ rng.i <= rng.len
    /\ LET rule == RangeArray[rng.i]
       IN /\ rng' = [rng EXCEPT !.i = @ + 1, !.acc = ApplyRule(rule, @)]
          /\ call' = [call EXCEPT !.applied = Append(@, rule)]
    /\ UNCHANGED <<mainpc, globals, file, clipboard, uiLabel, loopLabel,
                   pc, currentText, updatedText, attempt,
                   observed, slept, selfWritten, writes, fresh, saved, processed>>

\* The test that writes back whatever applyRules returned.
DiffersAlways(updated, current) == TRUE

\* `if updatedText != currentText`
Differs(updated, current) == updated # current

\* applyRules returns; the loop writes the result back when it differs.
Return ==
    /\ Running /\ pc = "range" /\ rng.i > rng.len
    /\ updatedText' = rng.acc
    /\ rng' = NoRange
    /\ attempt' = 0
    /\ writes' = [prev |-> lastText, tries |-> <<>>]
    /\ call' = NoCall
    /\ pc' = IF Differs(rng.acc, currentText) THEN "write" ELSE "sleep"
    /\ UNCHANGED <<mainpc, globals, file, clipboard, uiLabel, loopLabel, currentText,
                   observed, slept, selfWritten, fresh, saved, processed>>

\* lastText set to the text that was read.
LastIsRead(updated, current) == current

\* lastText after a write of updated succeeded.
LastAfterWrite(updated, current) == updated

\* The retry loop with `i <= maxAttempts`.
TriesOnceMore(i) == i <= maxAttempts

\* Whether writeToClipboard tries again after i failed attempts.
TriesAgain(i) == i < maxAttempts

\* One clipboard.WriteAll of writeToClipboard. A failed one is followed by
\* its 200 ms sleep; after the last the loop sets the failure status.
WriteAll(ok) ==
    /\ Running /\ pc = "write"
    /\ writes' = [writes EXCEPT !.tries = Append(@, ok)]
    /\ IF ok
       THEN /\ clipboard' = ClipText(updatedText)
            /\ loopLabel' = WriteSucceeded
            /\ lastText' = LastAfterWrite(updatedText, currentText)
            /\ selfWritten' = TRUE
            /\ pc' = "sleep"
            /\ UNCHANGED attempt
       ELSE /\ attempt' = attempt + 1
            /\ IF TriesAgain(attempt + 1)
               THEN UNCHANGED <<pc, loopLabel>>
               ELSE pc' = "sleep" /\ loopLabel' = WriteFailed
            /\ UNCHANGED <<clipboard, lastText, selfWritten>>
    /\ UNCHANGED <<mainpc, monitoring, replacementRules, monitorInterval, file, uiLabel,
                   currentText, updatedText, rng, observed, slept, call, fresh, saved, processed>>

\* time.Sleep(monitorInterval) at the end of a cycle, whose variables
\* (currentText, updatedText, i) end with it.
Sleep ==
    /\ Running /\ pc = "sleep"
    /\ pc' = "top"
    /\ slept' = TRUE
    /\ currentText' = EmptyText
    /\ updatedText' = EmptyText
    /\ attempt' = 0
    /\ writes' = NoWrites
    /\ processed' = IF isTextContent(currentText) /\ ~isTextTooLarge(currentText)
                    THEN currentText ELSE EmptyText
    /\ UNCHANGED <<mainpc, globals, file, clipboard, uiLabel, loopLabel, rng,
                   observed, selfWritten, call, fresh, saved>>

\* ---------------------------------------------------------- specifications

Loop == TestFlag \/ (\E o \in ReadOutcomes : ReadAll(o)) \/ Classify \/ RangeStep
        \/ Return \/ (\E ok \in BOOLEAN : WriteAll(ok)) \/ Sleep

Buttons == StartMonitoring \/ StopMonitoring

\* The handlers that change the rules, with the outcomes W of their save.
Edits(W) ==
    \E w \in W :
        \/ \E p \in AddPatterns, r \in AddReplacements : Add(p, r, w)
        \/ \E id \in 1..MaxRules : Delete(id, w)
        \/ \E id \in 1..MaxRules, checked \in BOOLEAN : Toggle(id, checked, w)

World == \E c \in {ClipText(t) : t \in ExtTexts} \cup {ClipOther} : ExtCopy(c)

\* The loop, the two buttons and the other programs, with the rules as
\* loadSettings left them.
Next == LoadSettings \/ Loop \/ Buttons \/ World

Spec == Init /\ [][Next]_vars

\* The loop and the handlers that change the rules under it, with nothing
\* else writing the clipboard.
RaceNext == LoadSettings \/ Loop \/ StartMonitoring \/ Edits({"ok"})

RaceInit ==
    /\ Start(JsonFile(FALSE, <<RuleBad, RuleAtoAA>>, FALSE, Ms(0)))
    /\ clipboard = ClipText(Text(<<97>>, 0))
    /\ saved = NotSaved

RaceSpec == RaceInit /\ [][RaceNext]_vars

\* The process ends and main starts again on the file it left.
Restart ==
    /\ mainpc = "run"
    /\ mainpc' = "load"
    /\ monitoring' = FALSE
    /\ replacementRules' = NilSlice
    /\ monitorInterval' = DefaultInterval
    /\ lastText' = EmptyText
    /\ uiLabel' = Waiting
    /\ loopLabel' = Waiting
    /\ pc' = "top"
    /\ currentText' = EmptyText
    /\ updatedText' = EmptyText
    /\ rng' = NoRange
    /\ attempt' = 0
    /\ observed' = FALSE
    /\ slept' = TRUE
    /\ selfWritten' = FALSE
    /\ call' = NoCall
    /\ writes' = NoWrites
    /\ fresh' = FALSE
    /\ saved' = [saved EXCEPT !.last = "none"]
    /\ processed' = EmptyText
    /\ UNCHANGED <<file, clipboard>>

StoreInit ==
    /\ \E f \in StoreFiles : Start(f)
    /\ clipboard = ClipOther
    /\ saved = NotSaved

\* The settings store under the handlers that change the rules, over the
\* runs of the process; the loop is idle.
StoreNext == LoadSettings \/ Edits(WriteOutcomes) \/ Restart

StoreSpec == StoreInit /\ [][StoreNext]_vars

\* The goroutine of monitorClipboard is scheduled, its sleeps end and the
\* clipboard calls return: a step of the loop that can be taken is taken.
\* main goes on to loadSettings.
Fairness == WF_vars(Loop) /\ WF_vars(LoadSettings)

\* What the other programs copy in the runs checked for progress: a text a
\* rule changes, one that is too large, one with a control byte, and data
\* that is no text.
LiveClips ==
    { ClipText(Text(<<97>>, 0)), ClipText(Text(<<97>>, maxTextSize)),
      ClipText(Text(<<11>>, 0)), ClipOther }

LiveNext == LoadSettings \/ Loop \/ Buttons \/ (\E c \in LiveClips : ExtCopy(c))

LiveSpec == Init /\ [][LiveNext]_vars /\ Fairness

\* The loop left alone once Start is pressed: no Stop, no rule edit, no
\* other program copying, from any clipboard content; and a clipboard whose
\* reads and writes do not fail for ever.
PendingInit ==
    /\ \E f \in InitFiles : Start(f)
    /\ clipboard \in {ClipText(t) : t \in ExtTexts} \cup {ClipOther}
    /\ saved = NotSaved

PendingNext == LoadSettings \/ Loop \/ StartMonitoring

PendingSpec ==
    /\ PendingInit /\ [][PendingNext]_vars
    /\ Fairness
    /\ SF_vars(ReadAll("ok")) /\ SF_vars(WriteAll(TRUE))

\* The same for the loop under the handlers that change the rules.
LiveRaceSpec == RaceSpec /\ Fairness

\* ------------------------------------------------------------------ claims

\* The rules as the list holds them now.
Rules == Elems(replacementRules)

\* A text that passes both checks of the cycle, as the claims state them.
Passes(t) ==
    /\ Len(t.body) + t.pad > 0
    /\ \A i \in 1..Len(t.body) : t.body[i] \notin ((0..8) \cup {11, 12} \cup (14..31))
    /\ Len(t.body) + t.pad <= 262144

\* The loop reads or writes the clipboard in this step.
IOStep ==
    \/ pc = "read" /\ pc' # "read"
    \/ pc = "write" /\ writes'.tries # writes.tries

\* C1: feedback avoidance. Once a cycle has written T, and while no other
\* program copies anything, the clipboard holds T = lastText, every later
\* cycle that reads it reads T, and no cycle calls applyRules or writes.
C1_FeedbackAvoidance ==
    selfWritten =>
        /\ clipboard = ClipText(lastText)
        /\ pc \notin {"range", "write"}
        /\ ~call.made
        /\ pc = "classify" => currentText = lastText

\* C1 witness: a later cycle has read the written T, the rules would change
\* T again (a -> aa), and T passes the checks.
C1_Witness ==
    /\ selfWritten /\ pc = "classify" /\ currentText = lastText
    /\ Passes(currentText)
    /\ FoldRules(Rules, currentText) # currentText

\* C2: only rule-triggered changes are written back. Every write of a cycle
\* writes applyRules(v) for the v the cycle read, which differs from v; a
\* cycle whose applyRules(v) = v makes no write.
C2_OnlyRuleChanges ==
    /\ (pc = "write" \/ writes.tries # <<>>) =>
           /\ updatedText = FoldRules(Rules, currentText)
           /\ updatedText # currentText
    /\ (pc = "sleep" /\ writes.tries # <<>> /\ writes.tries[Len(writes.tries)] /\ selfWritten) =>
           clipboard = ClipText(updatedText)

\* C2 witness: a cycle has written its transformed text.
C2_Witness ==
    /\ pc = "sleep" /\ writes.tries # <<>> /\ writes.tries[Len(writes.tries)]
    /\ clipboard = ClipText(updatedText)
    /\ updatedText # currentText

\* C3 as claimed: in no step taken while monitoring is false does the loop
\* read or write the clipboard.
C3_NoIOWhileFlagOff == [][IOStep => monitoring]_vars

\* C3 amended: the loop reads or writes the clipboard only in a cycle whose
\* test of the flag, at the top, found it true.
C3_NoIOUnlessObserved == [][IOStep => observed]_vars

\* C3 witness: after cycles that did clipboard I/O, Stop was pressed and the
\* loop has tested the flag, found it false, and idles at the top.
C3_Witness ==
    /\ ~monitoring /\ ~observed /\ pc = "top"
    /\ uiLabel = Stopped /\ loopLabel # Waiting

\* C4: the rules one applyRules call has applied, when its iteration ends,
\* are the rule list as it was at one instant of the call.
C4_AtomicEdits ==
    (pc = "range" /\ rng.i > rng.len) => call.applied \in call.lists

C6_SleepBetweenReads == [][(pc = "read" /\ pc' # "read") => slept]_vars

\* C7: bounded write retry. A cycle makes at most two WriteAll calls and
\* stops at the first that succeeds; then lastText is the written text and
\* the status the success message; after two failures the status is the
\* failure message and lastText is what it was.
C7_BoundedRetry ==
    LET t == writes.tries
        n == Len(t)
    IN /\ \A k \in 1..(n - 1) : ~t[k]
       /\ pc = "write" => n < 2 /\ \A k \in 1..n : ~t[k]
       /\ (pc = "sleep" /\ n > 0) =>
              /\ n <= 2
              /\ t[n] => lastText = updatedText /\ loopLabel = WriteSucceeded
              /\ ~t[n] => n = 2 /\ loopLabel = WriteFailed /\ lastText = writes.prev

\* C7 witness: both attempts of a cycle failed, and lastText is not the text
\* the cycle tried to write.
C7_Witness ==
    /\ pc = "sleep" /\ writes.tries = <<FALSE, FALSE>>
    /\ loopLabel = WriteFailed /\ lastText = writes.prev /\ lastText # updatedText

\* C8: after loadSettings the interval is positive, and a file whose
\* interval_ms is zero, negative or missing leaves the default 500 ms.
C8_PositiveInterval ==
    mainpc = "run" =>
        /\ Positive(monitorInterval)
        /\ (file.kind = "json" /\ (~file.hasInterval \/ ~Positive(file.interval))) =>
               monitorInterval = DurationOfMs(Ms(500))

\* What loadSettings has just read is what the last saveSettings wrote.
RoundTrip == mainpc = "run" /\ fresh /\ saved.valid

\* C9 as claimed: saveSettings followed by loadSettings gives back the rules
\* (pattern, replacement, enabled, in order) and the interval.
C9_RoundTrip ==
    RoundTrip => Triples(Rules) = saved.rules /\ monitorInterval = saved.interval

\* C9 amended: it gives back the rules, and the interval when that is a
\* whole number of milliseconds.
C9_RoundTripWholeMs ==
    RoundTrip =>
        /\ Triples(Rules) = saved.rules
        /\ saved.interval.mag[1] = 0 => monitorInterval = saved.interval

\* C9 witness: a list of two rules, one with a pattern that does not
\* compile, was saved and loaded again.
C9_Witness ==
    /\ RoundTrip /\ Len(Rules) = 2
    /\ \E i \in 1..2 : 91 \in Range(Rules[i].Pattern)
    /\ Triples(Rules) = saved.rules

\* A rule that applyRules applies: enabled, with a pattern that compiles.
Applies(rule) == rule.Enabled /\ rule.Pattern # <<>> /\ 91 \notin Range(rule.Pattern)

\* The rule with the matcher of its pattern.
Compiled(rule) == [rule EXCEPT !.Regexp = [ok |-> TRUE, lit |-> rule.Pattern]]

\* C10: invalid-pattern isolation. After loadSettings of a parsed file every
\* rule of the file is in the list at its place with its enabled flag, has
\* a matcher exactly when its pattern is non-empty and compiles, and a call
\* of applyRules returns what the valid enabled rules alone give.
C10_InvalidIsolation ==
    (mainpc = "run" /\ fresh /\ ~Unmarshal(file).err) =>
        /\ Len(Rules) = Len(file.rules)
        /\ \A i \in 1..Len(Rules) :
               /\ Rules[i].Pattern = DecodeString(file.rules[i].pattern).s
               /\ Rules[i].Enabled = file.rules[i].enabled
               /\ Rules[i].Regexp.ok = (Rules[i].Pattern # <<>> /\ 91 \notin Range(Rules[i].Pattern))
        /\ (pc = "range" /\ rng.i > rng.len) =>
               LET valid == SelectSeq(Rules, Applies)
               IN rng.acc = FoldRules([i \in 1..Len(valid) |-> Compiled(valid[i])], currentText)

\* C10 witness: the list loaded has an invalid rule before a valid enabled
\* one, and a call of applyRules has changed its text with the valid one.
C10_Witness ==
    /\ mainpc = "run" /\ fresh /\ ~Unmarshal(file).err
    /\ Len(Rules) = 2 /\ 91 \in Range(Rules[1].Pattern) /\ Rules[1].Enabled
    /\ ~Rules[1].Regexp.ok /\ Rules[2].Regexp.ok
    /\ pc = "range" /\ rng.i > rng.len /\ rng.acc # currentText

\* The rules a settings file holds: (pattern, replacement, enabled), in order.
Persisted(f) == Triples(Unmarshal(f).Rules)

\* A handler has changed the rule list in this step.
Mutation ==
    /\ mainpc = "run" /\ mainpc' = "run"
    /\ Elems(replacementRules') # Elems(replacementRules)

\* The latest saveSettings of this run wrote the file, and the file holds
\* the rules of the list.
StorageIsMemory ==
    (mainpc = "run" /\ saved.last = "ok") =>
        /\ ~Unmarshal(file).err
        /\ Persisted(file) = Triples(Rules)
        /\ file.hasInterval

\* C11: storage follows memory. After an add, a delete or a toggle whose
\* file write succeeded the file holds the rules of the list (pattern,
\* replacement, enabled, in order), and every step of a handler that changes
\* the list is also a saveSettings of the changed list.
C11_StorageFollowsMemory ==
    /\ []StorageIsMemory
    /\ [][Mutation =>
            /\ saved'.last \in WriteOutcomes
            /\ file' = WriteFile(file, Marshal(replacementRules', Milliseconds(monitorInterval)),
                                 saved'.last)]_vars

\* C11 witness: a rule was deleted from a list of two (the array keeps its
\* two places), the save succeeded, and the file holds the one rule left.
C11_Witness ==
    /\ mainpc = "run" /\ saved.last = "ok" /\ ~fresh
    /\ Len(Rules) = 1 /\ Cap(replacementRules) > 1
    /\ Persisted(file) = Triples(Rules)

\* C12: the loop has no terminal state. Once main has started it, a step
\* of the loop can be taken in every state, whatever the reads, the checks,
\* the writes and the buttons did before; and the loop, when scheduled, is
\* again and again at the top of its cycle, where it tests the flag.
C12_NoTerminalState ==
    /\ [](Running => ENABLED Loop)
    /\ []<>(pc = "top")

\* C12 witness: both writes of a cycle have failed, Stop was pressed during
\* the cycle, and the loop is on its way back to the top.
C12_Witness ==
    /\ pc = "sleep" /\ writes.tries = <<FALSE, FALSE>> /\ loopLabel = WriteFailed
    /\ ~monitoring

\* C13: unchanged values are not transformed again. A cycle does not call
\* applyRules on a text that passes the checks and is the text the cycle
\* before it took past them, also when that cycle's applyRules changed
\* nothing or its write failed.
C13_NoRetransform ==
    [][(pc = "classify" /\ pc' = "range") => currentText # processed]_vars

\* How far into its cycle the loop is.
Pos(at) ==
    CASE at = "top" -> 0 [] at = "read" -> 1 [] at = "classify" -> 2
      [] at = "range" -> 3 [] at = "write" -> 4 [] at = "sleep" -> 5
      [] OTHER -> 6

\* The loop has found the flag off and waits at the top of its cycle.
Idle == pc = "top" /\ ~observed

\* C14: stop is observed within one cycle. In the steps taken while the flag
\* is off and stays off, the loop only moves on through the cycle it is in
\* (so through at most one read, which is one step, and one sequence of
\* writes) or back to the top; from the top it goes nowhere and does no
\* clipboard I/O; and the loop, when scheduled, comes to wait at the top
\* unless Start is pressed.
C14_StopWithinOneCycle ==
    /\ [][(~monitoring /\ ~monitoring') =>
            /\ Pos(pc') >= Pos(pc) \/ pc' = "top"
            /\ (pc = "read" /\ pc' = "read") => UNCHANGED <<locals, slept, loopLabel>>
            /\ pc = "top" => (pc' = "top" /\ ~IOStep)]_vars
    /\ ~monitoring ~> (monitoring \/ Idle)

\* C14 witness: Stop was pressed during a cycle, which went on to its write
\* sequence, whose first attempt failed.
C14_Witness ==
    /\ ~monitoring /\ uiLabel = Stopped /\ observed
    /\ pc = "write" /\ writes.tries = <<FALSE>>

\* C15: status reporting. The label monitorClipboard writes is the label
\* the window shows: when the loop sets a status, that status is what the
\* window shows.
C15_StatusDisplayed ==
    [][loopLabel' # loopLabel => uiLabel' = loopLabel']_vars

\* C16: a settings file that is absent or does not parse leaves an empty
\* rule list and the interval of 500 ms, the loop runs, and no cycle writes
\* the clipboard: applyRules returns the text it was given.
C16_EmptyOnBadFile ==
    (mainpc = "run" /\ file.kind \in {"absent", "garbage"}) =>
        /\ Len(Rules) = 0
        /\ monitorInterval = DurationOfMs(Ms(500))
        /\ pc # "write" /\ writes.tries = <<>> /\ ~selfWritten
        /\ pc = "range" => rng.acc = currentText
        /\ pc = "sleep" /\ updatedText # EmptyText => updatedText = currentText

\* C16 witness: the file did not parse, Start was pressed, and a cycle has
\* called applyRules on "a" and written nothing.
C16_Witness ==
    /\ mainpc = "run" /\ file.kind = "garbage" /\ replacementRules.nil
    /\ observed /\ pc = "sleep" /\ writes.tries = <<>>
    /\ currentText = Text(<<97>>, 0) /\ updatedText = currentText

\* The reference fold: what rule makes of text t, and what the first n rules
\* of a list make of it, one after the other.
RefStep(rule, t) ==
    IF rule.Enabled /\ rule.Regexp # NilRegexp
    THEN [t EXCEPT !.body = ReplaceFrom(rule.Regexp.lit, t.body, rule.Replacement, 1)]
    ELSE t

RECURSIVE RefFold(_, _, _)
RefFold(rules, n, t) == IF n = 0 THEN t ELSE RefStep(rules[n], RefFold(rules, n - 1, t))

\* An enabled rule of the list, with a matcher, matches somewhere in t.
SomeRuleMatches(rules, t) ==
    \E k \in 1..Len(rules) :
        /\ rules[k].Enabled /\ rules[k].Regexp # NilRegexp
        /\ \E i \in 1..Len(t.body) : MatchesAt(rules[k].Regexp.lit, t.body, i)

\* C17: applyRules is a fold in list order. With the rule list unchanged
\* during the call, what applyRules holds after each of its iterations, and
\* what it returns, is the reference fold of the rules so far over its
\* argument: a function of the list and the argument, which is the argument
\* itself when no enabled rule matches it.
C17_LeftToRightFold ==
    /\ pc = "range" =>
           /\ rng.len = Len(Rules)
           /\ rng.acc = RefFold(Rules, rng.i - 1, currentText)
           /\ (rng.i > rng.len /\ ~SomeRuleMatches(Rules, currentText)) => rng.acc = currentText
    /\ pc = "write" => updatedText = RefFold(Rules, Len(Rules), currentText)

\* C17 witness: the call over (a -> b, disabled), a -> aa, a -> b on "a" has
\* ended with "bb", which the rules in another order would not give.
C17_Witness ==
    /\ pc = "range" /\ rng.i > rng.len /\ Len(Rules) = 3
    /\ ~Rules[1].Enabled /\ Rules[1].Regexp # NilRegexp
    /\ currentText = Text(<<97>>, 0) /\ rng.acc = Text(<<98, 98>>, 0)
    /\ RefFold(<<Rules[3], Rules[2]>>, 2, currentText) # rng.acc

\* A step of the loop other than a clipboard write.
SkipStep == ~UNCHANGED <<locals, observed, slept, processed>> /\ pc # "write"

\* C18: skipped cycles change nothing but the status. No step of a cycle
\* but its writes changes lastText, the clipboard, the rule list or the
\* flag, so a cycle that ends on a read error, on non-text or too large
\* content, on a text equal to lastText or on an applyRules that changed
\* nothing leaves them as they were; and a read that fails while the
\* clipboard holds text (an error other than the non-text one) leaves the
\* status too.
C18_SkippedCyclesFrame ==
    [][SkipStep =>
          /\ UNCHANGED <<lastText, clipboard, replacementRules, monitoring>>
          /\ (pc = "read" /\ pc' # "classify" /\ clipboard.text) => UNCHANGED loopLabel]_vars

\* C18 witness: after a cycle that wrote, a cycle has ended on a read error:
\* the loop is back at the top without having slept, and the status, the
\* clipboard and lastText are what the write left.
C18_Witness ==
    /\ pc = "top" /\ ~slept /\ observed
    /\ loopLabel = WriteSucceeded /\ selfWritten /\ clipboard = ClipText(lastText)

\* The clipboard holds text X, which passes the checks, is not lastText, and
\* which the rules change.
Pending(X) ==
    /\ clipboard = ClipText(X) /\ Passes(X)
    /\ X # lastText /\ RefFold(Rules, Len(Rules), X) # X

\* The clipboard and lastText hold what the rules make of X.
Transformed(X) ==
    /\ clipboard = ClipText(RefFold(Rules, Len(Rules), X))
    /\ lastText = RefFold(Rules, Len(Rules), X)

\* C19: pending text is eventually transformed. With monitoring on and
\* staying on, the rules fixed, no other program copying and clipboard calls
\* that do not fail for ever, a text X on the clipboard that passes the
\* checks, differs from lastText and is changed by the rules is in the end
\* replaced by applyRules(X), which is then lastText; and a cycle whose two
\* writes failed is followed by a cycle that writes again.
C19_EventuallyTransformed ==
    /\ \A X \in {t \in ExtTexts : Passes(t)} :
           (mainpc = "run" /\ monitoring /\ Pending(X)) ~> Transformed(X)
    /\ (monitoring /\ pc = "sleep" /\ writes.tries = <<FALSE, FALSE>>)
           ~> (pc = "write" /\ writes.tries = <<>>)

\* C19 witness: both writes of a cycle have failed and its text is still
\* pending.
C19_Witness ==
    /\ monitoring /\ pc = "sleep" /\ writes.tries = <<FALSE, FALSE>>
    /\ Pending(currentText) /\ updatedText # currentText

\* C20: Add-rule validation. A step of the Add handler with an empty
\* pattern, an empty replacement or a pattern that does not compile changes
\* neither the rule list nor the file; with any other input it makes the
\* list the rules it held, in their order, followed by one new rule that is
\* enabled and has the matcher of its pattern.
C20_AddValidation ==
    [][\A p \in AddPatterns, r \in AddReplacements :
           (\E w \in WriteOutcomes : Add(p, r, w)) =>
               IF p = <<>> \/ r = <<>> \/ 91 \in Range(p)
               THEN UNCHANGED <<replacementRules, file>>
               ELSE Elems(replacementRules') =
                        Append(Elems(replacementRules),
                               Rule(p, r, TRUE, [ok |-> TRUE, lit |-> p]))]_vars

\* C20 witness: a -> aa was added after a -> b, in the place a deleted rule
\* had left in the array, and saved.
C20_Witness ==
    /\ mainpc = "run" /\ ~fresh /\ saved.last = "ok"
    /\ Len(Rules) = 2 /\ Cap(replacementRules) = 4
    /\ Rules[2] = Rule(<<97>>, <<97, 97>>, TRUE, [ok |-> TRUE, lit |-> <<97>>])
    /\ Persisted(file) = Triples(Rules)

====
